---- MODULE Spec2Model ----
(***************************************************************************)
(* The todo API of eshulman2/todo-api: five HTTP handlers (List, Read,     *)
(* Create, Update, Delete) over one collection of Todo items, in two       *)
(* variants: the in-memory slice `todos` (src/main.go) and the MySQL table *)
(* `todos` (src/unnamed/part_001).                                          *)
(*                                                                         *)
(* Spec      handles requests one at a time, on either variant.            *)
(* SpecRace  runs CreateHandler of the in-memory variant on several        *)
(*           goroutines whose steps interleave.                            *)
(***************************************************************************)
EXTENDS Integers, Sequences, FiniteSets, TLC

VARIABLES
    backend,   \* "mem": src/main.go, "db": src/unnamed/part_001
    todos,     \* the slice `todos` (mem) or the rows of table `todos` in primary-key order (db)
    autoInc,   \* the table's AUTO_INCREMENT counter (db); unused in mem
    req,       \* the request handled last: op, path segment, body, storage fault
    resp,      \* the response to it: status and the items of its JSON body
    nreq,      \* number of requests handled so far
    ever,      \* observer: every identifier that was ever in the collection
    created,   \* observer: the items returned by the successful Creates, in order
    mutated,   \* observer: some Update or Delete has succeeded so far
    workers    \* SpecRace: each goroutine's position and locals in CreateHandler

vars == <<backend, todos, autoInc, req, resp, nreq, ever, created, mutated, workers>>

----------------------------------------------------------------------------
(* Bounds of the model *)

\* requests handled in one behaviour of Spec
MaxReq == 3
\* largest identifier a request names in its path or body
MaxPathId == 3
\* goroutines of SpecRace, each handling one Create
RaceWorkers == 2

Tasks == {"", "a"}

----------------------------------------------------------------------------
(* Data *)

Todo(id, task, done) == [ID |-> id, Task |-> task, Done |-> done]

\* `var data Todo`: the zero value the decoder fills in
ZeroTodo == Todo(0, "", FALSE)

InitialTodos ==
    << Todo(1, "Learn Go basics", TRUE), Todo(2, "Build a simple API", FALSE) >>

Ids(s) == {s[i].ID : i \in DOMAIN s}

----------------------------------------------------------------------------
(* Request inputs: path segments are character sequences, bodies are what  *)
(* the JSON decoder makes of them.                                         *)

Digits == <<"0", "1", "2", "3", "4", "5", "6", "7", "8", "9">>

IsDigit(c) == \E i \in DOMAIN Digits : Digits[i] = c

DigitVal(c) == (CHOOSE i \in DOMAIN Digits : Digits[i] = c) - 1

RECURSIVE ParseDigits(_, _)
ParseDigits(cs, acc) ==
    IF cs = <<>> THEN acc
    ELSE ParseDigits(Tail(cs), acc * 10 + DigitVal(Head(cs)))

\* strconv.Atoi: optional sign, then one or more decimal digits
Atoi(seg) ==
    LET signed == seg # <<>> /\ Head(seg) \in {"+", "-"}
        ds     == IF signed THEN Tail(seg) ELSE seg
    IN  IF ds = <<>> \/ \E i \in DOMAIN ds : ~IsDigit(ds[i])
        THEN [err |-> TRUE, val |-> 0]
        ELSE [err |-> FALSE,
              val |-> IF signed /\ Head(seg) = "-"
                      THEN 0 - ParseDigits(ds, 0) ELSE ParseDigits(ds, 0)]

PathSegs ==
    {<<Digits[i + 1]>> : i \in 1..MaxPathId} \cup {<<"x">>, <<"0", "1">>}

NoSeg == <<>>

\* a body the decoder rejects, or the Todo it decodes to (absent fields zero)
BadBody == [ok |-> FALSE, data |-> ZeroTodo]

NoBody == [ok |-> TRUE, data |-> ZeroTodo]

CreateBodies ==
    {BadBody} \cup
    {[ok |-> TRUE, data |-> Todo(i, t, d)] : i \in {0, 1}, t \in Tasks, d \in BOOLEAN}

UpdateBodies ==
    {BadBody} \cup
    {[ok |-> TRUE, data |-> Todo(i, t, d)] :
        i \in 0..MaxPathId, t \in Tasks, d \in BOOLEAN}

\* json.NewDecoder(r.Body).Decode(&data)
Decode(body) ==
    IF body.ok THEN [err |-> FALSE, data |-> body.data]
    ELSE [err |-> TRUE, data |-> ZeroTodo]

----------------------------------------------------------------------------
(* In-memory variant, src/main.go.  A handler is an operator from the      *)
(* collection and the request to the reply and the collection it leaves.   *)

Reply(status, items, s) == [status |-> status, items |-> items, todos |-> s]

\* the loop of ReadHandler: index of the first item with the identifier, 0 if none
FindTodo(s, id) ==
    IF \E i \in DOMAIN s : s[i].ID = id
    THEN CHOOSE i \in DOMAIN s : s[i].ID = id /\ \A j \in 1..(i - 1) : s[j].ID # id
    ELSE 0

\* slices.IndexFunc(todos, func(t) t.ID == id): 1-based here, 0 for Go's -1
IndexFunc(s, id) ==
    IF \E i \in DOMAIN s : s[i].ID = id
    THEN CHOOSE i \in DOMAIN s : s[i].ID = id /\ \A j \in 1..(i - 1) : s[j].ID # id
    ELSE 0

RECURSIVE MaxIDFrom(_, _)
MaxIDFrom(s, maxID) ==
    IF s = <<>> THEN maxID
    ELSE MaxIDFrom(Tail(s), IF maxID < Head(s).ID THEN Head(s).ID ELSE maxID)

\* a scan whose maxID starts at 1 instead of the zero value
MaxIDStartOne(s) == MaxIDFrom(s, 1)

\* var maxID int; for _, todo := range todos { if maxID < todo.ID { maxID = todo.ID } }
MaxID(s) == MaxIDFrom(s, 0)

\* a newTask whose ID is maxID, the increment forgotten
NewTaskNoIncrement(maxID, data) == Todo(maxID, data.Task, data.Done)

\* newTask := Todo{ID: maxID + 1, Task: data.Task, Done: data.Done}
NewTask(maxID, data) == Todo(maxID + 1, data.Task, data.Done)

\* an append whose result is not kept
AppendTodoDropped(s, t) == s

\* todos = append(todos, newTask)
AppendTodo(s, t) == Append(s, t)

\* an Update that never compares the two identifiers
IdMismatchNever(id, data) == FALSE

\* id != data.ID
IdMismatch(id, data) == id # data.ID

\* an assignment to the element after idx
SetAtOffByOne(s, idx, data) ==
    IF idx + 1 \in DOMAIN s THEN [s EXCEPT ![idx + 1] = data] ELSE s

\* todos[idx] = data
SetAt(s, idx, data) == [s EXCEPT ![idx] = data]

\* a Delete that removes the element before idx
DeleteAtOffByOne(s, idx) == SubSeq(s, 1, idx - 2) \o SubSeq(s, idx, Len(s))

\* a Delete that moves the last element into idx and truncates
DeleteAtSwapLast(s, idx) ==
    IF idx = Len(s) THEN SubSeq(s, 1, Len(s) - 1)
    ELSE SubSeq([s EXCEPT ![idx] = s[Len(s)]], 1, Len(s) - 1)

\* todos = slices.Delete(todos, idx, idx+1)
DeleteAt(s, idx) == SubSeq(s, 1, idx - 1) \o SubSeq(s, idx + 1, Len(s))

MemListHandler(s) == Reply(200, s, s)

MemReadHandler(s, seg) ==
    LET a == Atoi(seg) IN
    IF a.err THEN Reply(400, <<>>, s)
    ELSE LET found == FindTodo(s, a.val) IN
         IF found = 0 THEN Reply(404, <<>>, s)
         ELSE Reply(200, <<s[found]>>, s)

MemCreateHandler(s, body) ==
    LET d == Decode(body) IN
    IF d.err THEN Reply(400, <<>>, s)
    ELSE IF d.data.Task = "" THEN Reply(400, <<>>, s)
    ELSE LET newTask == NewTask(MaxID(s), d.data) IN
         Reply(201, <<newTask>>, AppendTodo(s, newTask))

MemUpdateHandler(s, seg, body) ==
    LET a == Atoi(seg)
        d == Decode(body)
    IN  IF a.err THEN Reply(400, <<>>, s)
        ELSE IF d.err THEN Reply(400, <<>>, s)
        ELSE IF IdMismatch(a.val, d.data) THEN Reply(409, <<>>, s)
        ELSE LET idx == IndexFunc(s, a.val) IN
             IF idx = 0 THEN Reply(404, <<>>, s)
             ELSE Reply(200, <<d.data>>, SetAt(s, idx, d.data))

MemDeleteHandler(s, seg) ==
    LET a == Atoi(seg) IN
    IF a.err THEN Reply(400, <<>>, s)
    ELSE LET idx == IndexFunc(s, a.val) IN
         IF idx = 0 THEN Reply(404, <<>>, s)
         ELSE Reply(204, <<>>, DeleteAt(s, idx))

----------------------------------------------------------------------------
(* Table variant, src/unnamed/part_001.  The table is its rows in          *)
(* primary-key order and its AUTO_INCREMENT counter; main creates it if it *)
(* does not exist, and the model starts from the table just created.       *)
(* `fault` says that the handler's SQL statement fails (db.Exec / Scan     *)
(* return an error); a failed statement changes nothing.                   *)

DbReply(status, items, rows, ai) ==
    [status |-> status, items |-> items, todos |-> rows, autoInc |-> ai]

\* SELECT id, task, done from todos
SelectAll(rows) == rows

\* SELECT id, task, done FROM todos WHERE id = ?  (<<>> is sql.ErrNoRows)
SelectById(rows, id) == SelectSeq(rows, LAMBDA r : r.ID = id)

\* INSERT INTO todos (task, done) VALUES (?, ?): id INT AUTO_INCREMENT PRIMARY KEY
InsertRow(rows, ai, task, done) ==
    [rows |-> Append(rows, Todo(ai, task, done)),
     autoInc |-> ai + 1,
     lastInsertId |-> ai]

\* UPDATE todos SET task = ?, done = ? WHERE id = ?
UpdateRows(rows, id, task, done) ==
    [i \in DOMAIN rows |->
        IF rows[i].ID = id THEN Todo(id, task, done) ELSE rows[i]]

\* result.RowsAffected() of the UPDATE: the connection string sets no
\* clientFoundRows, so MySQL counts the rows whose values changed
UpdateRowsAffected(rows, updated) ==
    Cardinality({i \in DOMAIN rows : updated[i] # rows[i]})

\* DELETE FROM todos WHERE id = ?
DeleteRows(rows, id) == SelectSeq(rows, LAMBDA r : r.ID # id)

\* result.RowsAffected() of the DELETE: the rows removed
DeleteRowsAffected(rows, left) == Len(rows) - Len(left)

DbListHandler(rows, ai, fault) ==
    IF fault THEN DbReply(500, <<>>, rows, ai)
    ELSE DbReply(200, SelectAll(rows), rows, ai)

DbReadHandler(rows, ai, seg, fault) ==
    LET a == Atoi(seg) IN
    IF a.err THEN DbReply(400, <<>>, rows, ai)
    ELSE IF fault THEN DbReply(500, <<>>, rows, ai)
    ELSE LET row == SelectById(rows, a.val) IN
         IF row = <<>> THEN DbReply(404, <<>>, rows, ai)
         ELSE DbReply(200, <<row[1]>>, rows, ai)

DbCreateHandler(rows, ai, body, fault) ==
    LET d == Decode(body) IN
    IF d.err THEN DbReply(400, <<>>, rows, ai)
    ELSE IF d.data.Task = "" THEN DbReply(400, <<>>, rows, ai)
    ELSE IF fault THEN DbReply(500, <<>>, rows, ai)
    ELSE LET result  == InsertRow(rows, ai, d.data.Task, d.data.Done)
             newTask == Todo(result.lastInsertId, d.data.Task, d.data.Done)
         IN  DbReply(201, <<newTask>>, result.rows, result.autoInc)

DbUpdateHandler(rows, ai, seg, body, fault) ==
    LET a == Atoi(seg)
        d == Decode(body)
    IN  IF a.err THEN DbReply(400, <<>>, rows, ai)
        ELSE IF d.err THEN DbReply(400, <<>>, rows, ai)
        ELSE IF IdMismatch(a.val, d.data) THEN DbReply(409, <<>>, rows, ai)
        ELSE IF fault THEN DbReply(500, <<>>, rows, ai)
        ELSE LET updated == UpdateRows(rows, a.val, d.data.Task, d.data.Done)
                 rowsAffected == UpdateRowsAffected(rows, updated)
             IN  IF rowsAffected = 0 THEN DbReply(404, <<>>, updated, ai)
                 ELSE DbReply(200, <<d.data>>, updated, ai)

DbDeleteHandler(rows, ai, seg, fault) ==
    LET a == Atoi(seg) IN
    IF a.err THEN DbReply(400, <<>>, rows, ai)
    ELSE IF fault THEN DbReply(500, <<>>, rows, ai)
    ELSE LET left == DeleteRows(rows, a.val)
             rowsAffected == DeleteRowsAffected(rows, left)
         IN  IF rowsAffected = 0 THEN DbReply(404, <<>>, left, ai)
             ELSE DbReply(204, <<>>, left, ai)

----------------------------------------------------------------------------
(* Requests handled one at a time *)

Request(op, seg, body, fault) ==
    [op |-> op, seg |-> seg, body |-> body, fault |-> fault]

NoRequest == Request("none", NoSeg, NoBody, FALSE)

IdleWorkers == [w \in 1..RaceWorkers |->
    [pc |-> "idle", data |-> ZeroTodo, maxID |-> 0, newTask |-> ZeroTodo,
     snapshot |-> <<>>, scanAt |-> 0, status |-> 0]]

Init ==
    /\ backend \in {"mem", "db"}
    /\ todos = IF backend = "mem" THEN InitialTodos ELSE <<>>
    /\ autoInc = 1
    /\ req = NoRequest
    /\ resp = [status |-> 0, items |-> <<>>]
    /\ nreq = 0
    /\ ever = Ids(todos)
    /\ created = <<>>
    /\ mutated = FALSE
    /\ workers = <<>>

\* what every handled request leaves behind: the reply, the collection, the observers
Handled(r, reply, ai) ==
    /\ nreq < MaxReq
    /\ nreq' = nreq + 1
    /\ req' = r
    /\ resp' = [status |-> reply.status, items |-> reply.items]
    /\ todos' = reply.todos
    /\ autoInc' = ai
    /\ ever' = ever \cup Ids(reply.todos)
    /\ created' = IF r.op = "Create" /\ reply.status = 201
                  THEN created \o reply.items ELSE created
    /\ mutated' = (mutated \/ (r.op \in {"Update", "Delete"}
                                /\ reply.status \in {200, 204}))
    /\ UNCHANGED <<backend, workers>>

MemList ==
    /\ backend = "mem"
    /\ Handled(Request("List", NoSeg, NoBody, FALSE), MemListHandler(todos), autoInc)

MemRead ==
    /\ backend = "mem"
    /\ \E seg \in PathSegs :
        Handled(Request("Read", seg, NoBody, FALSE), MemReadHandler(todos, seg), autoInc)

MemCreate ==
    /\ backend = "mem"
    /\ \E body \in CreateBodies :
        Handled(Request("Create", NoSeg, body, FALSE), MemCreateHandler(todos, body), autoInc)

MemUpdate ==
    /\ backend = "mem"
    /\ \E seg \in PathSegs, body \in UpdateBodies :
        Handled(Request("Update", seg, body, FALSE), MemUpdateHandler(todos, seg, body), autoInc)

MemDelete ==
    /\ backend = "mem"
    /\ \E seg \in PathSegs :
        Handled(Request("Delete", seg, NoBody, FALSE), MemDeleteHandler(todos, seg), autoInc)

DbList ==
    /\ backend = "db"
    /\ \E fault \in BOOLEAN :
        LET reply == DbListHandler(todos, autoInc, fault) IN
        Handled(Request("List", NoSeg, NoBody, fault), reply, reply.autoInc)

DbRead ==
    /\ backend = "db"
    /\ \E seg \in PathSegs, fault \in BOOLEAN :
        LET reply == DbReadHandler(todos, autoInc, seg, fault) IN
        Handled(Request("Read", seg, NoBody, fault), reply, reply.autoInc)

DbCreate ==
    /\ backend = "db"
    /\ \E body \in CreateBodies, fault \in BOOLEAN :
        LET reply == DbCreateHandler(todos, autoInc, body, fault) IN
        Handled(Request("Create", NoSeg, body, fault), reply, reply.autoInc)

DbUpdate ==
    /\ backend = "db"
    /\ \E seg \in PathSegs, body \in UpdateBodies, fault \in BOOLEAN :
        LET reply == DbUpdateHandler(todos, autoInc, seg, body, fault) IN
        Handled(Request("Update", seg, body, fault), reply, reply.autoInc)

DbDelete ==
    /\ backend = "db"
    /\ \E seg \in PathSegs, fault \in BOOLEAN :
        LET reply == DbDeleteHandler(todos, autoInc, seg, fault) IN
        Handled(Request("Delete", seg, NoBody, fault), reply, reply.autoInc)

Next ==
    \/ MemList \/ MemRead \/ MemCreate \/ MemUpdate \/ MemDelete
    \/ DbList \/ DbRead \/ DbCreate \/ DbUpdate \/ DbDelete

Spec == Init /\ [][Next]_vars

----------------------------------------------------------------------------
(* CreateHandler of src/main.go on concurrent goroutines.  net/http serves *)
(* each request on its own goroutine and `todos` has no lock, so the       *)
(* handler's reads and writes of `todos` interleave: the scan for maxID    *)
(* (lines 72-77), then in `todos = append(todos, newTask)` (line 87) the   *)
(* read of the slice and the write of the grown slice.  The slice header   *)
(* is read and written whole.  Two goroutines that append to the same      *)
(* slice value may share the backing array's free slot, so the element the *)
(* written slice ends with is either goroutine's item.                     *)

Worker(pc, data, maxID, newTask, snapshot, scanAt, status) ==
    [pc |-> pc, data |-> data, maxID |-> maxID, newTask |-> newTask,
     snapshot |-> snapshot, scanAt |-> scanAt, status |-> status]

InitRace ==
    /\ backend = "mem"
    /\ todos = InitialTodos
    /\ autoInc = 1
    /\ req = NoRequest
    /\ resp = [status |-> 0, items |-> <<>>]
    /\ nreq = 0
    /\ ever = Ids(todos)
    /\ created = <<>>
    /\ mutated = FALSE
    /\ workers = IdleWorkers

\* lines 60-70: decode the body, reject an empty task
RaceDecode(w) ==
    /\ workers[w].pc = "idle"
    /\ \E body \in CreateBodies :
        LET d == Decode(body) IN
        workers' = [workers EXCEPT ![w] =
            IF d.err \/ d.data.Task = ""
            THEN Worker("done", d.data, 0, ZeroTodo, <<>>, 0, 400)
            ELSE Worker("decoded", d.data, 0, ZeroTodo, <<>>, 0, 0)]
    /\ UNCHANGED <<backend, todos, autoInc, req, resp, nreq, ever, created, mutated>>

\* lines 72-83: scan todos for maxID, build newTask
RaceScan(w) ==
    /\ workers[w].pc = "decoded"
    /\ LET maxID == MaxID(todos) IN
       workers' = [workers EXCEPT ![w] =
            Worker("scanned", @.data, maxID, NewTask(maxID, @.data), <<>>, nreq, 0)]
    /\ UNCHANGED <<backend, todos, autoInc, req, resp, nreq, ever, created, mutated>>

\* line 87, append's argument: read the slice
RaceLoad(w) ==
    /\ workers[w].pc = "scanned"
    /\ workers' = [workers EXCEPT ![w].pc = "loaded", ![w].snapshot = todos]
    /\ UNCHANGED <<backend, todos, autoInc, req, resp, nreq, ever, created, mutated>>

\* the items that can sit in the slot after w's snapshot: w's own, or that of a
\* goroutine appending to the same slice value
SlotItems(w) ==
    {workers[w].newTask} \cup
    {workers[v].newTask : v \in {u \in DOMAIN workers :
        /\ u # w
        /\ workers[u].pc \in {"loaded", "done"}
        /\ workers[u].status # 400
        /\ workers[u].snapshot = workers[w].snapshot}}

\* line 87, the assignment: write the grown slice; lines 89-91: answer 201
RaceStore(w) ==
    /\ workers[w].pc = "loaded"
    /\ \E item \in SlotItems(w) :
        todos' = AppendTodo(workers[w].snapshot, item)
    /\ workers' = [workers EXCEPT ![w].pc = "done", ![w].status = 201]
    /\ nreq' = nreq + 1
    /\ ever' = ever \cup Ids(todos')
    /\ UNCHANGED <<backend, autoInc, req, resp, created, mutated>>

NextRace ==
    \/ \E w \in DOMAIN workers : RaceDecode(w)
    \/ \E w \in DOMAIN workers : RaceScan(w)
    \/ \E w \in DOMAIN workers : RaceLoad(w)
    \/ \E w \in DOMAIN workers : RaceStore(w)

SpecRace == InitRace /\ [][NextRace]_vars

----------------------------------------------------------------------------
(* Properties.  In Spec a step that handles a request raises nreq; req'    *)
(* and resp' are that request and its response, todos the collection       *)
(* before it and todos' the collection after it.                           *)

Handles(op) == nreq' = nreq + 1 /\ req'.op = op

\* the identifier a request's path names, and whether the path names one
PathOk(r) == ~Atoi(r.seg).err

PathId(r) == Atoi(r.seg).val

Count(s, id) == Cardinality({i \in DOMAIN s : s[i].ID = id})

UniqueIds(s) == \A i, j \in DOMAIN s : i # j => s[i].ID # s[j].ID

IdSeq(s) == [i \in DOMAIN s |-> s[i].ID]

\* s without the items whose identifier is id, the others in their order
Without(s, id) == SelectSeq(s, LAMBDA t : t.ID # id)

\* what List and Read answer in the current state, the storage answering
ListNow ==
    IF backend = "mem" THEN MemListHandler(todos)
    ELSE DbListHandler(todos, autoInc, FALSE)

ReadNow(id) ==
    IF backend = "mem" THEN MemReadHandler(todos, <<Digits[id + 1]>>)
    ELSE DbReadHandler(todos, autoInc, <<Digits[id + 1]>>, FALSE)

\* the collection the process starts with
StartTodos == IF backend = "mem" THEN InitialTodos ELSE <<>>

(* C1: the identifier a successful Create (201) returns was never in the
   collection before: it differs from the identifier of every earlier
   Create and of every item that was ever stored, deleted ones included. *)
C1_CreateIdNeverSeenBefore ==
    [][(Handles("Create") /\ resp'.status = 201)
            => resp'.items[1].ID \notin ever]_vars

(* C2: in every reachable state no two stored items have the same
   identifier, and no request changes the identifier of an item that stays
   in the collection: after a request the identifiers are, position by
   position, those before it, with at most one item appended or one item
   removed. *)
C2_IdsUniqueAndImmutable ==
    /\ UniqueIds(todos)
    /\ [][/\ UniqueIds(todos')
          /\ \/ IdSeq(todos') = IdSeq(todos)
             \/ /\ Len(todos') = Len(todos) + 1
                /\ SubSeq(IdSeq(todos'), 1, Len(todos)) = IdSeq(todos)
             \/ \E k \in DOMAIN todos :
                    IdSeq(todos') = IdSeq(SubSeq(todos, 1, k - 1)
                                            \o SubSeq(todos, k + 1, Len(todos)))
         ]_vars

\* an Update of an existing item has succeeded after a Create added an item
C2_Witness ==
    /\ req.op = "Update" /\ resp.status = 200
    /\ created # <<>>
    /\ Len(todos) >= 2

(* C3: an Update whose body identifier differs from the path identifier
   answers 409 and leaves the whole collection unchanged, whether or not an
   item with the path identifier or the body identifier exists. *)
C3_MismatchIsConflict ==
    [][(/\ Handles("Update")
        /\ PathOk(req') /\ req'.body.ok
        /\ PathId(req') # req'.body.data.ID)
            => (resp'.status = 409 /\ todos' = todos /\ autoInc' = autoInc)]_vars

\* a 409 was answered although both the path's and the body's item exist
C3_Witness ==
    /\ req.op = "Update" /\ resp.status = 409
    /\ PathId(req) \in Ids(todos)
    /\ req.body.data.ID \in Ids(todos)
    /\ req.body.data.ID # PathId(req)

(* C4: an Update with a well-formed body whose identifier equals the path
   identifier (the storage answering) answers 404, the collection
   unchanged, exactly when no stored item has that identifier; when an item
   with it exists the answer is 200 with the body item, and the stored item
   then has the body's task and done, also when they equal the stored
   values. *)
C4_UpdateFoundIffStored ==
    [][(/\ Handles("Update")
        /\ PathOk(req') /\ req'.body.ok /\ ~req'.fault
        /\ PathId(req') = req'.body.data.ID)
            => IF PathId(req') \notin Ids(todos)
               THEN resp'.status = 404 /\ todos' = todos
               ELSE /\ resp'.status = 200
                    /\ resp'.items = <<req'.body.data>>
                    /\ \E i \in DOMAIN todos' : todos'[i] = req'.body.data]_vars

(* C5: a Read of an identifier that no stored item has answers 404 (the
   storage answering); after a successful Delete (204) no item with the
   deleted identifier remains; and a Read of that identifier handled right
   after the Delete answers 404. *)
C5_ReadMissingIsNotFound ==
    [][/\ (Handles("Read") /\ PathOk(req') /\ ~req'.fault
            /\ PathId(req') \notin Ids(todos))
                => resp'.status = 404
       /\ (Handles("Delete") /\ resp'.status = 204)
                => PathId(req') \notin Ids(todos')
       /\ (/\ req.op = "Delete" /\ resp.status = 204
           /\ Handles("Read") /\ PathOk(req') /\ ~req'.fault
           /\ PathId(req') = PathId(req))
                => resp'.status = 404
      ]_vars

\* the first request deleted an item, the second read the same identifier: 404
C5_Witness ==
    /\ nreq = 2
    /\ req.op = "Read" /\ resp.status = 404
    /\ PathOk(req) /\ PathId(req) \in ever

(* C6 as claimed: after N successful Creates and no successful Update or
   Delete since the start, List returns exactly N items and Read of each
   assigned identifier answers 200 with the item its Create returned. *)
C6_ListHasExactlyCreated ==
    ~mutated =>
        /\ Len(ListNow.items) = Len(created)
        /\ \A k \in DOMAIN created :
            /\ ReadNow(created[k].ID).status = 200
            /\ ReadNow(created[k].ID).items = <<created[k]>>

(* C6 as amended: after N successful Creates and no successful Update or
   Delete since the start, List returns the items the collection started
   with and N more, and Read of each assigned identifier answers 200 with
   the item its Create returned. *)
C6_ListHasStartPlusCreated ==
    ~mutated =>
        /\ ListNow.status = 200
        /\ Len(ListNow.items) = Len(StartTodos) + Len(created)
        /\ \A k \in DOMAIN created :
            /\ ReadNow(created[k].ID).status = 200
            /\ ReadNow(created[k].ID).items = <<created[k]>>

\* two Creates have succeeded, nothing else has changed the collection, List answered
C6_Witness ==
    /\ ~mutated
    /\ Len(created) = 2
    /\ req.op = "List" /\ resp.status = 200
    /\ Len(resp.items) = Len(StartTodos) + 2

(* C7: every stored item has a non-empty task in every reachable state, and
   a Create with an empty task answers 400. *)
C7_StoredTasksNonEmpty ==
    /\ \A i \in DOMAIN todos : todos[i].Task # ""
    /\ (req.op = "Create" /\ req.body.ok /\ req.body.data.Task = "")
            => resp.status = 400

(* C8: a Delete of the identifier of a stored item answers 204 and leaves
   the collection without that item, the other items and their order as
   before; a second Delete of the same identifier handled right after it
   answers 404 and leaves the collection as the first left it (the storage
   answering). *)
C8_DeleteTwice ==
    [][/\ (Handles("Delete") /\ PathOk(req') /\ ~req'.fault
            /\ PathId(req') \in Ids(todos))
                => /\ resp'.status = 204
                   /\ todos' = Without(todos, PathId(req'))
                   /\ Len(todos') = Len(todos) - 1
       /\ (/\ req.op = "Delete" /\ resp.status = 204
           /\ Handles("Delete") /\ PathOk(req') /\ ~req'.fault
           /\ PathId(req') = PathId(req))
                => (resp'.status = 404 /\ todos' = todos)
      ]_vars

\* the first request deleted an item, the second deleted the same identifier: 404
C8_Witness ==
    /\ nreq = 2
    /\ req.op = "Delete" /\ resp.status = 404
    /\ PathOk(req) /\ PathId(req) \in ever
    /\ Len(todos) = Len(StartTodos) - 1

(* C9 as claimed: whenever the collection is empty, a successful Create
   returns identifier 1, in both variants, also after earlier items or rows
   were deleted. *)
C9_EmptyCreateIsOne ==
    [][(Handles("Create") /\ resp'.status = 201 /\ todos = <<>>)
            => resp'.items[1].ID = 1]_vars

(* C9 as amended: whenever the collection is empty, a successful Create
   answers 201 and stores the item as the only one; in the in-memory
   variant the created item has identifier 1, also after all earlier items
   were deleted; in the table variant it has identifier 1 if no row was
   inserted before, and otherwise (rows were inserted and deleted before)
   an identifier greater than every identifier assigned before. *)
C9_EmptyCreateId ==
    [][(Handles("Create") /\ resp'.status = 201 /\ todos = <<>>)
            => /\ todos' = resp'.items
               /\ backend = "mem" => resp'.items[1].ID = 1
               /\ backend = "db" =>
                    /\ ever = {} => resp'.items[1].ID = 1
                    /\ \A e \in ever : resp'.items[1].ID > e]_vars

\* a Create into a table emptied by Delete returned an identifier above 1
C9_Witness ==
    /\ backend = "db"
    /\ req.op = "Create" /\ resp.status = 201
    /\ Len(todos) = 1
    /\ resp.items[1].ID > 1

(* C10: when two Creates of the in-memory variant scan the same collection
   for the maximum identifier (neither has appended when the other scans),
   both are answered 201 with the same identifier, and the collection then
   holds at least one item with that identifier and no more of them than
   there are requests answered with it: two such items side by side, or one
   with the other request's item lost. *)
C10_RacingCreatesShareId ==
    \A p, q \in DOMAIN workers :
        (/\ p # q
         /\ workers[p].pc = "done" /\ workers[p].status = 201
         /\ workers[q].pc = "done" /\ workers[q].status = 201
         /\ workers[p].scanAt = workers[q].scanAt)
            => /\ workers[p].newTask.ID = workers[q].newTask.ID
               /\ Count(todos, workers[p].newTask.ID) >= 1
               /\ Count(todos, workers[p].newTask.ID) <=
                    Cardinality({w \in DOMAIN workers :
                        /\ workers[w].status = 201
                        /\ workers[w].newTask.ID = workers[p].newTask.ID})

\* both requests were answered 201 with one identifier, held by two stored items
C10_Witness ==
    \E p, q \in DOMAIN workers :
        /\ p # q
        /\ workers[p].pc = "done" /\ workers[p].status = 201
        /\ workers[q].pc = "done" /\ workers[q].status = 201
        /\ workers[p].newTask.ID = workers[q].newTask.ID
        /\ Count(todos, workers[p].newTask.ID) = 2
        /\ ~UniqueIds(todos)

====
